---------------------------- MODULE Spec2Model ----------------------------
(***************************************************************************)
(* Model of the iris SVM notebook (src/iris_classification.ipynb).  The    *)
(* file holds two versions of the notebook:                                *)
(*   variant 1 (lines 1-329): train/validation/test split, grid of         *)
(*             2 gammas x 300 Cs scored on the validation subset;          *)
(*   variant 2 (lines 331-652): train/test split, grid of 30 gammas x      *)
(*             30 Cs scored on the test subset.                            *)
(* A record of the dataset is its row number 1..n; a feature array is a    *)
(* sequence of row numbers and a class array the sequence of their labels. *)
(* Floating point fractions are kept as exact rationals [num, den].        *)
(* The library calls (train_test_split, SVC, crosstab) are modelled by     *)
(* what the notebook relies on; the random generator and the classifier    *)
(* are opaque and drawn from small families fixed in the initial state.    *)
(***************************************************************************)
EXTENDS Integers, Sequences, FiniteSets, TLC

(***************************************************************************)
(* Bounds of the model.                                                    *)
(***************************************************************************)
\* dataset sizes 0..MaxN of the partition-only specification
MaxN == 12
\* number of distinct behaviours of the random generator
NumShuffles == 2
\* number of distinct behaviours of the classifier library
NumSVC == 3
\* test subsets of 1..MaxM records in the report-only specification
MaxM == 3

(***************************************************************************)
(* Program constants.                                                      *)
(***************************************************************************)
\* load_iris: 150 records, 3 classes
IrisN == 150
NumClasses == 3

Variants == {1, 2}

(***************************************************************************)
(* Arithmetic helpers.                                                     *)
(***************************************************************************)
Rat(a, b) == [num |-> a, den |-> b]
RatSub(x, y) == Rat(x.num * y.den - y.num * x.den, x.den * y.den)
RatDiv(x, y) == Rat(x.num * y.den, x.den * y.num)
RatLess(x, y) == x.num * y.den < y.num * x.den
RatEq(x, y) == x.num * y.den = y.num * x.den
\* math.ceil / math.floor of the product frac * m, for m >= 0
CeilMul(frac, m) == (frac.num * m + frac.den - 1) \div frac.den
FloorMul(frac, m) == (frac.num * m) \div frac.den

RECURSIVE GCD(_, _)
GCD(a, b) == IF b = 0 THEN a ELSE GCD(b, a % b)

Range(s) == {s[i] : i \in 1..Len(s)}

(***************************************************************************)
(* The dataset: rows 1..m, and iris' targets: three equal blocks of        *)
(* classes 0, 1, 2 (for m = 150: rows 1-50, 51-100, 101-150).              *)
(***************************************************************************)
AllFeatures(m) == [i \in 1..m |-> i]
Targets(m) == [i \in 1..m |-> ((i - 1) * NumClasses) \div m]

(***************************************************************************)
(* Split fractions and seeds (variant 1: lines 101-110, variant 2:        *)
(* line 432).  None is the empty set, a given value a singleton.           *)
(* train_frac, valid_frac and test_frac are kernel variables (declared     *)
(* here, with the inputs of the notebook, because the operators below read *)
(* them); the notebook assigns them the literals 0.70, 0.15, 0.15.         *)
(***************************************************************************)
VARIABLES
  variant,            \* which of the two notebooks runs
  n,                  \* number of records the loader delivered
  rng,                \* behaviour of the seeded random generator
  svc,                \* behaviour of the classifier library
  train_frac, valid_frac, test_frac,   \* lines 101-103
  g_last, c_last,     \* last value of range(1,3) resp. range(1,301)
  fit_fails           \* 0-based grid positions at which fit() raises

NotebookFractions ==
  [train |-> Rat(70, 100), valid |-> Rat(15, 100), test |-> Rat(15, 100)]
\* (a deliberately wrong adj_valid_frac:) the validation share taken of the rest as is
adj_valid_frac_unadjusted == valid_frac
adj_valid_frac == RatDiv(valid_frac, RatSub(Rat(1, 1), test_frac))

\* test_size / train_size of the split that takes the test subset off
TestSize(v) == IF v = 1 THEN test_frac ELSE Rat(2, 10)
\* (a deliberately wrong TrainSize:) train_frac given as train_size
TrainSizeFromFrac(v) == IF v = 1 THEN {train_frac} ELSE {Rat(8, 10)}
TrainSize(v) == IF v = 1 THEN {} ELSE {Rat(8, 10)}
\* (a deliberately wrong SplitSeed:) no random_state given
SplitSeedNone(v) == {}
\* random_state of the train_test_split calls
SplitSeed(v) == IF v = 1 THEN {62} ELSE {21}

(***************************************************************************)
(* sklearn.model_selection.train_test_split as the notebook calls it: the  *)
(* sizes (ceil for the test share, floor for a given train share, the rest *)
(* otherwise; ValueError for an empty training subset), a permutation of   *)
(* the rows drawn from the generator, the first n_test of it the test      *)
(* rows and the next n_train the training rows.                            *)
(***************************************************************************)
SplitSizes(test_size, train_size, m) ==
  LET n_test == CeilMul(test_size, m)
      n_train == IF train_size = {} THEN m - n_test
                 ELSE FloorMul(CHOOSE f \in train_size : TRUE, m)
  IN [ok |-> /\ 0 < test_size.num /\ test_size.num < test_size.den
             /\ n_train + n_test <= m
             /\ n_train > 0,
      n_train |-> n_train,
      n_test |-> n_test]

\* The generator: one permutation of 1..m per (behaviour k, seed).  With
\* random_state = None the generator's state is not fixed by the call, so
\* any behaviour may show; with an integer seed it is the kernel's own.
Stride(m) ==
  LET S == {a \in 1..m : a > m \div 3 /\ GCD(a, m) = 1}
  IN CHOOSE a \in S : \A b \in S : a <= b
Permutation(k, random_state, m) ==
  LET seed == IF random_state = {} THEN 0 ELSE CHOOSE x \in random_state : TRUE
      st == Stride(m)
  IN [i \in 1..m |-> (((i - 1) * st + k * 11 + seed) % m) + 1]
ShuffleChoices(random_state, world) ==
  IF random_state = {} THEN 0..(NumShuffles - 1) ELSE {world}

TestIndices(p, sz) == [i \in 1..sz.n_test |-> p[i]]
\* (a deliberately wrong TrainIndices:) the training slice starting one place early
TrainIndicesOverlap(p, sz) == [i \in 1..sz.n_train |-> p[sz.n_test + i - 1]]
TrainIndices(p, sz) == [i \in 1..sz.n_train |-> p[sz.n_test + i]]

TrainTestSplit(X, y, test_size, train_size, random_state, k) ==
  LET sz == SplitSizes(test_size, train_size, Len(X))
      p == Permutation(k, random_state, Len(X))
      te == TestIndices(p, sz)
      tr == TrainIndices(p, sz)
  IN IF sz.ok
     THEN [ok |-> TRUE,
           X_train |-> [i \in 1..Len(tr) |-> X[tr[i]]],
           X_test |-> [i \in 1..Len(te) |-> X[te[i]]],
           y_train |-> [i \in 1..Len(tr) |-> y[tr[i]]],
           y_test |-> [i \in 1..Len(te) |-> y[te[i]]]]
     ELSE [ok |-> FALSE, X_train |-> <<>>, X_test |-> <<>>,
           y_train |-> <<>>, y_test |-> <<>>]

(***************************************************************************)
(* The classifier library (sklearn.svm.SVC): an estimator is its           *)
(* parameters; fitting attaches the training rows and labels; predicting a *)
(* row gives a label that depends on the parameters, on the rows it was    *)
(* fitted on and on the row.  The library is opaque: behaviour `world' is  *)
(* one of NumSVC label functions.  A row the estimator was fitted on is    *)
(* given the label it was fitted with; every fourth row is hard and is     *)
(* misread as the next class while C is small for it, and at some of the   *)
(* other grid points.                                                      *)
(***************************************************************************)
SVC(gamma, C, random_state) ==
  [gamma |-> gamma, C |-> C, random_state |-> random_state,
   X |-> <<>>, y |-> <<>>, rows |-> {}]
\* fit(X, y): the estimator keeps what it was fitted on (rows: X as a set)
Fit(clf, X, y) == [clf EXCEPT !.X = X, !.y = y, !.rows = Range(X)]
NoClassifier == SVC(0, Rat(0, 1), {})

Misread(world, clf, r) ==
  /\ r % 4 = 0
  /\ \/ clf.C.num * 100 < r * clf.C.den
     \/ (r \div 4 + clf.gamma + clf.C.num * world) % (world + 1) = 0
Predict(world, clf, r, tg) ==
  IF r \in clf.rows
  THEN clf.y[CHOOSE i \in 1..Len(clf.X) : clf.X[i] = r]
  ELSE IF Misread(world, clf, r) THEN (tg[r] + 1) % NumClasses ELSE tg[r]
PredictAll(world, clf, X, tg) ==
  [j \in 1..Len(X) |-> Predict(world, clf, X[j], tg)]
\* estimator.score(X, y): the mean of (predict(X) == y), kept as hits/len.
Score(world, clf, X, y, tg) ==
  Rat(Cardinality({j \in 1..Len(X) : Predict(world, clf, X[j], tg) = y[j]}),
      Len(X))

(***************************************************************************)
(* The grid (variant 1: lines 125-128, variant 2: lines 447-450).          *)
(***************************************************************************)
GammaFirst == 1
GammaLast(v) == IF v = 1 THEN 2 ELSE 30
CFirst == 1
CLast(v) == IF v = 1 THEN 300 ELSE 30
CDivisor(v) == IF v = 1 THEN 100 ELSE 10
GridSeed(v) == IF v = 1 THEN {61} ELSE {21}
\* (a deliberately wrong BestPosition:) each variant with the other's literal
BestPositionSwapped(v) == IF v = 1 THEN 34 ELSE 117
\* gees[117] / cees[117] resp. gees[34] / cees[34] (0-based positions)
BestPosition(v) == IF v = 1 THEN 117 ELSE 34

\* (a deliberately wrong NextPoint:) the loops nested the other way round: gamma inner
NextPointGammaInner(v, gv, cv) ==
  IF gv < g_last THEN [more |-> TRUE, g |-> gv + 1, c |-> cv]
  ELSE IF cv < c_last THEN [more |-> TRUE, g |-> GammaFirst, c |-> cv + 1]
  ELSE [more |-> FALSE, g |-> gv, c |-> cv]

\* (a deliberately wrong NextPoint:) a loop that starts over when both
\* ranges are exhausted
NextPointRestart(v, gv, cv) ==
  IF cv < c_last THEN [more |-> TRUE, g |-> gv, c |-> cv + 1]
  ELSE IF gv < g_last THEN [more |-> TRUE, g |-> gv + 1, c |-> CFirst]
  ELSE [more |-> TRUE, g |-> GammaFirst, c |-> CFirst]

\* (a deliberately wrong NextPoint:) a loop that counts on from the value the
\* body left in c
NextPointReassigned(v, gv, cv) ==
  LET left == cv \div CDivisor(v)
  IN IF left < c_last THEN [more |-> TRUE, g |-> gv, c |-> left + 1]
     ELSE IF gv < g_last THEN [more |-> TRUE, g |-> gv + 1, c |-> CFirst]
     ELSE [more |-> FALSE, g |-> gv, c |-> cv]

\* The nested for loops: the point after (gv, cv), the inner range running
\* fastest; more = FALSE once both ranges are exhausted.  The ranges in
\* effect end at g_last and c_last (the notebook's: GammaLast, CLast).
NextPoint(v, gv, cv) ==
  IF cv < c_last THEN [more |-> TRUE, g |-> gv, c |-> cv + 1]
  ELSE IF gv < g_last THEN [more |-> TRUE, g |-> gv + 1, c |-> CFirst]
  ELSE [more |-> FALSE, g |-> gv, c |-> cv]

(***************************************************************************)
(* State: the kernel's variables, named as in the notebook.                *)
(***************************************************************************)
VARIABLES
  running,            \* "none", or "grid" while the loop of cell 4 runs
  error,              \* the exception that ended the last cell, or "none"
  cells_done,         \* cells that have run to their end
  feat_nottest_all, class_nottest_all,
  feat_test_all, class_test_all,
  feat_train_all, class_train_all,
  feat_valid_all, class_valid_all,
  scores, gees, cees,
  g, c,               \* the loop variables
  g_it, c_it,         \* next values of the two range iterators
  classes,            \* the estimator of the last grid point
  printed,            \* output of cell 5
  best_all_classifier, best_all_predictions,
  classifications, crosstabtable,
  prev_partition,     \* the subsets of the previous execution of the split
  fit_log, score_log  \* rows given so far to fit() resp. score() in cell 4

envVars == <<variant, n, rng, svc, train_frac, valid_frac, test_frac,
            g_last, c_last, fit_fails>>
splitVars == <<feat_nottest_all, class_nottest_all, feat_test_all,
               class_test_all, feat_train_all, class_train_all,
               feat_valid_all, class_valid_all>>
gridVars == <<scores, gees, cees, g, c, g_it, c_it, classes,
              fit_log, score_log>>
laterVars == <<printed, best_all_classifier, best_all_predictions,
               classifications, crosstabtable>>
vars == <<envVars, running, error, cells_done, splitVars, gridVars,
          laterVars, prev_partition>>

Partition ==
  [train |-> feat_train_all, valid |-> feat_valid_all, test |-> feat_test_all,
   class_train |-> class_train_all, class_valid |-> class_valid_all,
   class_test |-> class_test_all]
NoPartition ==
  [train |-> <<>>, valid |-> <<>>, test |-> <<>>,
   class_train |-> <<>>, class_valid |-> <<>>, class_test |-> <<>>]
NoPrinted == [idx |-> 0, max |-> Rat(0, 1), gamma |-> 0, C |-> Rat(0, 1)]
NoTable ==
  [rows |-> {}, cols |-> {}, row_labels |-> <<>>, col_labels |-> <<>>,
   cell |-> <<>>]

InitKernel ==
  /\ running = "none" /\ error = "none" /\ cells_done = {}
  /\ feat_nottest_all = <<>> /\ class_nottest_all = <<>>
  /\ feat_test_all = <<>> /\ class_test_all = <<>>
  /\ feat_train_all = <<>> /\ class_train_all = <<>>
  /\ feat_valid_all = <<>> /\ class_valid_all = <<>>
  /\ scores = <<>> /\ gees = <<>> /\ cees = <<>>
  /\ g = 0 /\ c = Rat(0, 1) /\ g_it = GammaFirst /\ c_it = CFirst
  /\ classes = NoClassifier
  /\ printed = NoPrinted
  /\ best_all_classifier = NoClassifier /\ best_all_predictions = <<>>
  /\ classifications = <<>> /\ crosstabtable = NoTable
  /\ prev_partition = NoPartition
  /\ fit_log = {} /\ score_log = {}

\* the notebook as written: its fractions, its grid, a library that fits
\* every grid point
InitInputs ==
  /\ train_frac = NotebookFractions.train
  /\ valid_frac = NotebookFractions.valid
  /\ test_frac = NotebookFractions.test
  /\ g_last = GammaLast(variant)
  /\ c_last = CLast(variant)
  /\ fit_fails = {}

Init ==
  /\ variant \in Variants
  /\ n = IrisN
  /\ rng \in 0..(NumShuffles - 1)
  /\ svc \in 1..NumSVC
  /\ InitInputs
  /\ InitKernel

(***************************************************************************)
(* Cell 4, up to the loop (variant 1: lines 97-120; variant 2: lines       *)
(* 427-442): scale, split off the test subset, in variant 1 split the rest *)
(* into training and validation subsets, empty the three lists.  A         *)
(* ValueError of train_test_split ends the cell where it is raised.        *)
(***************************************************************************)
SplitTest(k1) ==
  TrainTestSplit(AllFeatures(n), Targets(n), TestSize(variant),
                 TrainSize(variant), SplitSeed(variant), k1)
SplitValid(s1, k2) ==
  TrainTestSplit(s1.X_train, s1.y_train, adj_valid_frac, {},
                 SplitSeed(variant), k2)
SplitOk(k1, k2) ==
  LET s1 == SplitTest(k1)
  IN s1.ok /\ (variant = 1 => SplitValid(s1, k2).ok)

\* lines 106-110 resp. 431-432: the assignments of the split results
AssignSplit(k1, k2) ==
  LET s1 == SplitTest(k1)
      s2 == SplitValid(s1, k2)
  IN /\ prev_partition' = Partition
     /\ IF ~s1.ok
        THEN UNCHANGED splitVars
        ELSE IF variant = 1
        THEN /\ feat_nottest_all' = s1.X_train
             /\ class_nottest_all' = s1.y_train
             /\ feat_test_all' = s1.X_test
             /\ class_test_all' = s1.y_test
             /\ IF s2.ok
                THEN /\ feat_train_all' = s2.X_train
                     /\ class_train_all' = s2.y_train
                     /\ feat_valid_all' = s2.X_test
                     /\ class_valid_all' = s2.y_test
                ELSE UNCHANGED <<feat_train_all, class_train_all,
                                 feat_valid_all, class_valid_all>>
        ELSE /\ feat_train_all' = s1.X_train
             /\ class_train_all' = s1.y_train
             /\ feat_test_all' = s1.X_test
             /\ class_test_all' = s1.y_test
             /\ UNCHANGED <<feat_nottest_all, class_nottest_all,
                            feat_valid_all, class_valid_all>>

\* Cell 4 reads no variable of the later cells; running it again is modelled
\* from the states where none or all of the later cells have run.
LaterCells == {"lookup", "retrain", "report"}

\* (a deliberately wrong ListAtStart:) the cell goes on with the list of
\* its previous execution
ListKept(old) == old
\* scores = [], gees = [], cees = []: each name is bound to a new empty
\* list, whatever it was bound to before
ListAtStart(old) == <<>>

Cell4Split ==
  /\ running = "none"
  /\ cells_done \cap LaterCells \in {{}, LaterCells}
  /\ \E k1 \in ShuffleChoices(SplitSeed(variant), rng),
        k2 \in ShuffleChoices(SplitSeed(variant), rng) :
       /\ AssignSplit(k1, k2)
       /\ IF SplitOk(k1, k2)
          THEN /\ scores' = ListAtStart(scores)
               /\ gees' = ListAtStart(gees)
               /\ cees' = ListAtStart(cees)
               /\ g_it' = GammaFirst /\ c_it' = CFirst
               /\ fit_log' = {} /\ score_log' = {}
               /\ running' = "grid"
               /\ error' = "none"
               /\ cells_done' = (cells_done \ {"grid"}) \cup {"split"}
               /\ UNCHANGED <<g, c, classes>>
          ELSE /\ running' = "none"
               /\ error' = "ValueError"
               /\ UNCHANGED <<gridVars, cells_done>>
  /\ UNCHANGED <<envVars, laterVars>>

\* The partitioning step alone (lines 100-110 resp. 430-432), applied to a
\* dataset of any size.
Partitioner ==
  /\ running = "none"
  /\ \E k1 \in ShuffleChoices(SplitSeed(variant), rng),
        k2 \in ShuffleChoices(SplitSeed(variant), rng) :
       /\ AssignSplit(k1, k2)
       /\ error' = IF SplitOk(k1, k2) THEN "none" ELSE "ValueError"
       /\ cells_done' = IF SplitOk(k1, k2) THEN cells_done \cup {"split"}
                        ELSE cells_done \ {"split"}
  /\ UNCHANGED <<envVars, running, gridVars, laterVars>>

(***************************************************************************)
(* One iteration of the loop body (variant 1: lines 125-132; variant 2:    *)
(* lines 447-454).  Variant 1 scores on the validation subset, variant 2   *)
(* on the test subset.                                                     *)
(***************************************************************************)
ScoreFeatures(v) == IF v = 1 THEN feat_valid_all ELSE feat_test_all
ScoreClasses(v) == IF v = 1 THEN class_valid_all ELSE class_test_all

\* (a deliberately wrong ArgAfterCall:) the callee sorts its argument in place
ArgAfterCallReversed(X) == [i \in 1..Len(X) |-> X[Len(X) + 1 - i]]
\* An array after it was passed to fit() or score(): the library reads its
\* arguments (converting into a copy where it must) and writes to none.
ArgAfterCall(X) == X

\* 0-based position of the point (gv, cv) in the order of the loops
GridPosition(gv, cv) ==
  (gv - GammaFirst) * (c_last - CFirst + 1) + (cv - CFirst)
\* fit() of the estimator for the grid point at 0-based position pos raises
FitRaises(pos) == pos \in fit_fails

\* (a deliberately wrong OnFitError:) the loop body caught the exception and
\* went on with the next point
OnFitErrorSkip(nx) ==
  [running |-> IF nx.more THEN "grid" ELSE "none", error |-> "none",
   g_it |-> nx.g, c_it |-> nx.c]
\* The loop has no try: an exception of fit() leaves both for statements and
\* ends the cell; the iterators are dropped where they stand.
OnFitError(nx) ==
  [running |-> "none", error |-> "FitError", g_it |-> g_it, c_it |-> c_it]

GridStep ==
  /\ running = "grid"
  /\ LET cnew == Rat(c_it, CDivisor(variant))
         est == SVC(g_it, cnew, GridSeed(variant))
         clf == Fit(est, feat_train_all, class_train_all)
         sc == Score(svc, clf, ScoreFeatures(variant), ScoreClasses(variant),
                     Targets(n))
         nx == NextPoint(variant, g_it, c_it)
         raised == OnFitError(nx)
     IN /\ g' = g_it
        /\ c' = cnew
        /\ fit_log' = fit_log \cup Range(feat_train_all)
        /\ feat_train_all' = ArgAfterCall(feat_train_all)
        /\ class_train_all' = ArgAfterCall(class_train_all)
        /\ IF FitRaises(GridPosition(g_it, c_it))
           THEN /\ classes' = est
                /\ running' = raised.running
                /\ error' = raised.error
                /\ g_it' = raised.g_it
                /\ c_it' = raised.c_it
                /\ cells_done' = cells_done
                /\ UNCHANGED <<scores, gees, cees, score_log, feat_valid_all,
                               class_valid_all, feat_test_all, class_test_all>>
           ELSE /\ classes' = clf
                /\ scores' = Append(scores, sc)
                /\ gees' = Append(gees, g_it)
                /\ cees' = Append(cees, cnew)
                /\ score_log' = score_log \cup Range(ScoreFeatures(variant))
                /\ IF variant = 1
                   THEN /\ feat_valid_all' = ArgAfterCall(feat_valid_all)
                        /\ class_valid_all' = ArgAfterCall(class_valid_all)
                        /\ UNCHANGED <<feat_test_all, class_test_all>>
                   ELSE /\ feat_test_all' = ArgAfterCall(feat_test_all)
                        /\ class_test_all' = ArgAfterCall(class_test_all)
                        /\ UNCHANGED <<feat_valid_all, class_valid_all>>
                /\ g_it' = nx.g
                /\ c_it' = nx.c
                /\ running' = IF nx.more THEN "grid" ELSE "none"
                /\ error' = error
                /\ cells_done' = IF nx.more THEN cells_done
                                 ELSE cells_done \cup {"grid"}
  /\ UNCHANGED <<envVars, feat_nottest_all, class_nottest_all, laterVars,
                 prev_partition>>

(***************************************************************************)
(* Cell 5 (variant 1: lines 151-156; variant 2: lines 473-478): print the  *)
(* position and value of the best score, then the gamma and C stored at    *)
(* the literal position.  max() and list.index() scan from the front.      *)
(***************************************************************************)
\* max(): the first of the largest values of s[lo..hi]; a later value
\* replaces an earlier one only if it is strictly larger.  (The scan is
\* evaluated by halves: left half first, then right half.)
RECURSIVE PyMaxIn(_, _, _)
PyMaxIn(s, lo, hi) ==
  IF lo = hi THEN s[lo]
  ELSE LET mid == (lo + hi) \div 2
           l == PyMaxIn(s, lo, mid)
           r == PyMaxIn(s, mid + 1, hi)
       IN IF RatLess(l, r) THEN r ELSE l
PyMax(s) == PyMaxIn(s, 1, Len(s))

NotFound == -1
\* (a deliberately wrong PyIndexIn:) the position of the last item equal to x
RECURSIVE PyIndexLastIn(_, _, _, _)
PyIndexLastIn(s, x, lo, hi) ==
  IF lo = hi THEN (IF RatEq(s[lo], x) THEN lo - 1 ELSE NotFound)
  ELSE LET mid == (lo + hi) \div 2
           r == PyIndexLastIn(s, x, mid + 1, hi)
       IN IF r # NotFound THEN r ELSE PyIndexLastIn(s, x, lo, mid)

\* list.index(x): the 0-based position of the first item equal to x
\* (NotFound: none in s[lo..hi], a ValueError for the whole list).
RECURSIVE PyIndexIn(_, _, _, _)
PyIndexIn(s, x, lo, hi) ==
  IF lo = hi THEN (IF RatEq(s[lo], x) THEN lo - 1 ELSE NotFound)
  ELSE LET mid == (lo + hi) \div 2
           l == PyIndexIn(s, x, lo, mid)
       IN IF l # NotFound THEN l ELSE PyIndexIn(s, x, mid + 1, hi)
PyIndex(s, x) == PyIndexIn(s, x, 1, Len(s))

BestLookup ==
  /\ running = "none"
  /\ "split" \in cells_done
  /\ IF scores = <<>>
     THEN /\ error' = "ValueError"
          /\ UNCHANGED <<printed, cells_done>>
     ELSE IF Len(gees) <= BestPosition(variant)
     THEN /\ printed' = [printed EXCEPT
                           !.idx = PyIndex(scores, PyMax(scores)),
                           !.max = PyMax(scores)]
          /\ error' = "IndexError"
          /\ UNCHANGED cells_done
     ELSE /\ printed' = [idx |-> PyIndex(scores, PyMax(scores)),
                         max |-> PyMax(scores),
                         gamma |-> gees[BestPosition(variant) + 1],
                         C |-> cees[BestPosition(variant) + 1]]
          /\ error' = "none"
          /\ cells_done' = cells_done \cup {"lookup"}
  /\ UNCHANGED <<envVars, running, splitVars, gridVars, best_all_classifier,
                 best_all_predictions, classifications, crosstabtable,
                 prev_partition>>

(***************************************************************************)
(* Cell 6 (variant 1: lines 173-175; variant 2: lines 495-497): build the  *)
(* "best" estimator from the stored point, fit it, predict the test rows.  *)
(***************************************************************************)
\* (a deliberately wrong RetrainFeatures / RetrainClasses:) everything but the test rows
RetrainFeaturesNotTest == feat_nottest_all
RetrainClassesNotTest == class_nottest_all
RetrainFeatures == feat_train_all
RetrainClasses == class_train_all
\* (a deliberately wrong RetrainSeed:) variant 2 passing on the seed of its
\* grid search
RetrainSeedOfGrid(v) == IF v = 2 THEN GridSeed(v) ELSE {}
\* lines 173 and 495: SVC(kernel, gamma, C) and no random_state
RetrainSeed(v) == {}
\* (a deliberately wrong PredictFeatures:) predictions for the training rows
PredictFeaturesTrain == feat_train_all
\* lines 175 and 497: predict(feat_test_all)
PredictFeatures == feat_test_all

Retrain ==
  /\ running = "none"
  /\ "split" \in cells_done
  /\ IF Len(gees) <= BestPosition(variant)
     THEN /\ error' = "IndexError"
          /\ UNCHANGED <<best_all_classifier, best_all_predictions, cells_done>>
     ELSE LET clf == Fit(SVC(gees[BestPosition(variant) + 1],
                             cees[BestPosition(variant) + 1],
                             RetrainSeed(variant)),
                         RetrainFeatures, RetrainClasses)
          IN /\ best_all_classifier' = clf
             /\ best_all_predictions' =
                  PredictAll(svc, clf, PredictFeatures, Targets(n))
             /\ error' = "none"
             /\ cells_done' = cells_done \cup {"retrain"}
  /\ UNCHANGED <<envVars, running, splitVars, gridVars, printed,
                 classifications, crosstabtable, prev_partition>>

(***************************************************************************)
(* Cell 7 (variant 1: lines 207-225; variant 2: lines 529-547): the array  *)
(* of class names (items as wide as the test subset is long, its content   *)
(* before assignment whatever the allocation holds), the data frame of     *)
(* predictions and names, and their cross-tabulation.                      *)
(***************************************************************************)
setosa == <<"s", "e", "t", "o", "s", "a">>
versicolor == <<"v", "e", "r", "s", "i", "c", "o", "l", "o", "r">>
virginica == <<"v", "i", "r", "g", "i", "n", "i", "c", "a">>
\* np.chararray allocates without initialising: an item never assigned holds
\* what the memory held: nothing, something unreadable, or an older string
Uninitialised == {<<>>, <<"?">>, setosa}

\* (a deliberately wrong Store:) items that grow to the string stored
StoreWhole(name, itemsize) == name
\* storing a string in an item of the given width keeps its first characters
Store(name, itemsize) ==
  SubSeq(name, 1, IF Len(name) < itemsize THEN Len(name) ELSE itemsize)

\* the names the if / elif chain assigns
ClassName(label) ==
  IF label = 0 THEN setosa ELSE IF label = 1 THEN versicolor ELSE virginica

\* (a deliberately wrong Classify:) the last branch copied from the second
ClassifyVersicolorTwice(label, junk, itemsize) ==
  IF label = 0 THEN Store(setosa, itemsize)
  ELSE IF label = 1 THEN Store(versicolor, itemsize)
  ELSE IF label = 2 THEN Store(versicolor, itemsize)
  ELSE Store(junk, itemsize)
\* lines 211-217: the item of a label 0, 1 or 2 is assigned its name; there
\* is no else branch, the item of any other label stays as allocated.
Classify(label, junk, itemsize) ==
  IF label = 0 THEN Store(setosa, itemsize)
  ELSE IF label = 1 THEN Store(versicolor, itemsize)
  ELSE IF label = 2 THEN Store(virginica, itemsize)
  ELSE Store(junk, itemsize)

\* pd.crosstab: one row per value of the first column, one column per value
\* of the second, each position counted in the cell of its pair.
\* (a deliberately wrong TallyFrom:) a cell is marked, not incremented
RECURSIVE TallyFromMark(_, _, _, _)
TallyFromMark(k, rowvals, colvals, tbl) ==
  IF k > Len(rowvals) THEN tbl
  ELSE TallyFromMark(k + 1, rowvals, colvals,
                     [tbl EXCEPT ![<<rowvals[k], colvals[k]>>] = 1])
RECURSIVE TallyFrom(_, _, _, _)
TallyFrom(k, rowvals, colvals, tbl) ==
  IF k > Len(rowvals) THEN tbl
  ELSE TallyFrom(k + 1, rowvals, colvals,
                 [tbl EXCEPT ![<<rowvals[k], colvals[k]>>] = @ + 1])
\* order of strings: by code point, a proper prefix first
Alphabet ==
  <<"?", "a", "c", "e", "g", "i", "l", "n", "o", "r", "s", "t", "v">>
CharRank(ch) == CHOOSE i \in 1..Len(Alphabet) : Alphabet[i] = ch
StrLess(s, t) ==
  \E k \in 0..Len(s) :
    /\ k <= Len(t)
    /\ \A i \in 1..k : s[i] = t[i]
    /\ \/ k = Len(s) /\ k < Len(t)
       \/ k < Len(s) /\ k < Len(t) /\ CharRank(s[k + 1]) < CharRank(t[k + 1])
\* the values of S in ascending order
SortedInts(S) ==
  CHOOSE q \in [1..Cardinality(S) -> S] :
    \A i, j \in 1..Cardinality(S) : i < j => q[i] < q[j]
SortedStrs(S) ==
  CHOOSE q \in [1..Cardinality(S) -> S] :
    \A i, j \in 1..Cardinality(S) : i < j => StrLess(q[i], q[j])

\* The table has a row for each value present in rowvals and a column for
\* each value present in colvals, both in sorted order, and a count (0 for
\* a pair that never occurs) in each of its cells.
Crosstab(rowvals, colvals) ==
  LET rows == Range(rowvals)
      cols == Range(colvals)
  IN [rows |-> rows, cols |-> cols,
      row_labels |-> SortedInts(rows),
      col_labels |-> SortedStrs(cols),
      cell |-> TallyFrom(1, rowvals, colvals, [rc \in rows \X cols |-> 0])]

\* (a deliberately wrong DataFrame:) columns cut to the shorter of the two
DataFrameCropped(predictions, names) ==
  LET m == IF Len(predictions) < Len(names) THEN Len(predictions)
           ELSE Len(names)
  IN [ok |-> TRUE, predictions |-> SubSeq(predictions, 1, m),
      classifications |-> SubSeq(names, 1, m)]
\* pd.DataFrame of a dict of two arrays: a ValueError unless they are of the
\* same length
DataFrame(predictions, names) ==
  [ok |-> Len(predictions) = Len(names), predictions |-> predictions,
   classifications |-> names]

Report ==
  /\ running = "none"
  /\ "split" \in cells_done
  /\ "retrain" \in cells_done
  /\ \E junk \in Uninitialised :
       LET names == [j \in 1..Len(class_test_all) |->
                       Classify(class_test_all[j], junk, Len(class_test_all))]
           predictactual == DataFrame(best_all_predictions, names)
       IN /\ classifications' = names
          /\ IF ~predictactual.ok
             THEN /\ error' = "ValueError"
                  /\ UNCHANGED <<crosstabtable, cells_done>>
             ELSE /\ crosstabtable' = Crosstab(predictactual.predictions,
                                               predictactual.classifications)
                  /\ error' = "none"
                  /\ cells_done' = cells_done \cup {"report"}
  /\ UNCHANGED <<envVars, running, splitVars, gridVars, printed,
                 best_all_classifier, best_all_predictions, prev_partition>>

(***************************************************************************)
(* The notebook: cells run one at a time, in any order their variables     *)
(* allow, and may be run again.                                            *)
(***************************************************************************)
Next ==
  \/ Cell4Split
  \/ GridStep
  \/ BestLookup
  \/ Retrain
  \/ Report

Spec == Init /\ [][Next]_vars

(***************************************************************************)
(* The notebook with a classifier library whose fit() raises at one grid   *)
(* point: early in the grid, or after the literal position was filled.     *)
(***************************************************************************)
FailingPositions == {20, 200}

InitFailure ==
  /\ variant \in Variants
  /\ n = IrisN
  /\ rng \in 0..(NumShuffles - 1)
  /\ svc \in 1..NumSVC
  /\ train_frac = NotebookFractions.train
  /\ valid_frac = NotebookFractions.valid
  /\ test_frac = NotebookFractions.test
  /\ g_last = GammaLast(variant)
  /\ c_last = CLast(variant)
  /\ fit_fails \in {{p} : p \in FailingPositions}
  /\ InitKernel

SpecFailure == InitFailure /\ [][Next]_vars

(***************************************************************************)
(* The notebook with other ranges in the for statements: the notebook's    *)
(* own, or range(1,2) for both (a grid of the single point gamma 1, C      *)
(* 1/divisor).                                                             *)
(***************************************************************************)
GridInputs(v) ==
  { [g_last |-> GammaLast(v), c_last |-> CLast(v)],
    [g_last |-> GammaFirst, c_last |-> CFirst] }

InitGrid ==
  /\ variant \in Variants
  /\ n = IrisN
  /\ rng \in 0..(NumShuffles - 1)
  /\ svc \in 1..NumSVC
  /\ train_frac = NotebookFractions.train
  /\ valid_frac = NotebookFractions.valid
  /\ test_frac = NotebookFractions.test
  /\ \E r \in GridInputs(variant) : g_last = r.g_last /\ c_last = r.c_last
  /\ fit_fails = {}
  /\ InitKernel

SpecGrid == InitGrid /\ [][Next]_vars

(***************************************************************************)
(* One run of the notebook from a fresh kernel ("run all"): the cells in   *)
(* their order, each once, the run ending with the first cell that raises. *)
(* The library fits every point or raises at one.                          *)
(***************************************************************************)
InitRun ==
  /\ variant \in Variants
  /\ n = IrisN
  /\ rng \in 0..(NumShuffles - 1)
  /\ svc \in 1..NumSVC
  /\ train_frac = NotebookFractions.train
  /\ valid_frac = NotebookFractions.valid
  /\ test_frac = NotebookFractions.test
  /\ g_last = GammaLast(variant)
  /\ c_last = CLast(variant)
  /\ fit_fails \in {{}} \cup {{p} : p \in FailingPositions}
  /\ InitKernel

RunSplit == cells_done = {} /\ error = "none" /\ Cell4Split
RunGrid == GridStep
RunLookup ==
  /\ error = "none" /\ "grid" \in cells_done /\ "lookup" \notin cells_done
  /\ BestLookup
RunRetrain ==
  /\ error = "none" /\ "lookup" \in cells_done /\ "retrain" \notin cells_done
  /\ Retrain
RunReport ==
  /\ error = "none" /\ "retrain" \in cells_done /\ "report" \notin cells_done
  /\ Report

NextRun == RunSplit \/ RunGrid \/ RunLookup \/ RunRetrain \/ RunReport

SpecRun == InitRun /\ [][NextRun]_vars

(***************************************************************************)
(* The partitioning step on datasets of 0..MaxN records and on iris.       *)
(***************************************************************************)
DatasetSizes == (0..MaxN) \cup {IrisN}

InitPartition ==
  /\ variant \in Variants
  /\ n \in DatasetSizes
  /\ rng \in 0..(NumShuffles - 1)
  /\ svc = 1
  /\ InitInputs
  /\ InitKernel

NextPartition == Partitioner

SpecPartition == InitPartition /\ [][NextPartition]_vars

(***************************************************************************)
(* The partitioning step of variant 1 with other values in lines 101-103:  *)
(* the notebook's fractions, fractions that sum to 0.8, a test fraction    *)
(* above 1, a negative validation fraction.                                *)
(***************************************************************************)
FractionInputs ==
  { NotebookFractions,
    [train |-> Rat(50, 100), valid |-> Rat(15, 100), test |-> Rat(15, 100)],
    [train |-> Rat(70, 100), valid |-> Rat(15, 100), test |-> Rat(150, 100)],
    [train |-> Rat(100, 100), valid |-> Rat(-15, 100), test |-> Rat(15, 100)] }

InitFractions ==
  /\ variant = 1
  /\ n \in DatasetSizes
  /\ rng \in 0..(NumShuffles - 1)
  /\ svc = 1
  /\ \E f \in FractionInputs :
       train_frac = f.train /\ valid_frac = f.valid /\ test_frac = f.test
  /\ g_last = GammaLast(variant)
  /\ c_last = CLast(variant)
  /\ fit_fails = {}
  /\ InitKernel

SpecFractions == InitFractions /\ [][NextPartition]_vars

(***************************************************************************)
(* The reporting step alone (cell 7), applied to any test labels and       *)
(* predictions of 1..MaxM records.                                         *)
(***************************************************************************)
Labels == 0..(NumClasses - 1)
SeqsOver(S, len) == [1..len -> S]
\* test subsets as long as a class name is
NameLengths == {Len(setosa), Len(virginica), Len(versicolor)}

InitReport ==
  /\ variant \in Variants
  /\ n = IrisN
  /\ rng = 0
  /\ svc = 1
  /\ InitInputs
  /\ running = "none" /\ error = "none"
  /\ cells_done = {"split", "retrain"}
  /\ \/ \E m \in 1..MaxM :
          /\ class_test_all \in SeqsOver(Labels, m)
          /\ best_all_predictions \in SeqsOver(Labels, m)
     \/ /\ class_test_all = <<0, 0, 1, 1, 2>>
        /\ best_all_predictions = <<0, 0, 1, 2, 2>>
     \/ \E m \in NameLengths :
          /\ class_test_all = [i \in 1..m |-> (i - 1) % NumClasses]
          /\ best_all_predictions = class_test_all
  /\ feat_nottest_all = <<>> /\ class_nottest_all = <<>>
  /\ feat_test_all = <<>>
  /\ feat_train_all = <<>> /\ class_train_all = <<>>
  /\ feat_valid_all = <<>> /\ class_valid_all = <<>>
  /\ scores = <<>> /\ gees = <<>> /\ cees = <<>>
  /\ g = 0 /\ c = Rat(0, 1) /\ g_it = GammaFirst /\ c_it = CFirst
  /\ classes = NoClassifier
  /\ printed = NoPrinted
  /\ best_all_classifier = NoClassifier
  /\ classifications = <<>> /\ crosstabtable = NoTable
  /\ prev_partition = NoPartition
  /\ fit_log = {} /\ score_log = {}

NextReport == Report

SpecReport == InitReport /\ [][NextReport]_vars

(***************************************************************************)
(* The reporting step on any kernel state: true labels that may lie        *)
(* outside 0..2 (NumClasses stands for such a label), and predictions of   *)
(* any length 1..MaxM, whether or not it is the length of the true labels. *)
(***************************************************************************)
AnyLabels == 0..NumClasses

InitReportAny ==
  /\ variant \in Variants
  /\ n = IrisN
  /\ rng = 0
  /\ svc = 1
  /\ InitInputs
  /\ running = "none" /\ error = "none"
  /\ cells_done = {"split", "retrain"}
  /\ \/ \E m1 \in 1..MaxM, m2 \in 1..MaxM :
          /\ class_test_all \in SeqsOver(AnyLabels, m1)
          /\ best_all_predictions \in SeqsOver(Labels, m2)
     \/ /\ class_test_all = <<0, 0, 1, 1, 2>>
        /\ best_all_predictions = <<0, 0, 1, 2>>
  /\ feat_nottest_all = <<>> /\ class_nottest_all = <<>>
  /\ feat_test_all = <<>>
  /\ feat_train_all = <<>> /\ class_train_all = <<>>
  /\ feat_valid_all = <<>> /\ class_valid_all = <<>>
  /\ scores = <<>> /\ gees = <<>> /\ cees = <<>>
  /\ g = 0 /\ c = Rat(0, 1) /\ g_it = GammaFirst /\ c_it = CFirst
  /\ classes = NoClassifier
  /\ printed = NoPrinted
  /\ best_all_classifier = NoClassifier
  /\ classifications = <<>> /\ crosstabtable = NoTable
  /\ prev_partition = NoPartition
  /\ fit_log = {} /\ score_log = {}

SpecReportAny == InitReportAny /\ [][NextReport]_vars

(***************************************************************************)
(* Properties.                                                             *)
(***************************************************************************)
GridDone == running = "none" /\ "grid" \in cells_done
GridA(v) == GammaLast(v) - GammaFirst + 1
GridB(v) == CLast(v) - CFirst + 1

\* C1: once the loop has completed over a gammas (outer) and b Cs (inner),
\* scores, gees and cees each hold a*b entries, and the entry at 0-based
\* position i*b+j is the one of the point (gamma_i, C_j): gees holds
\* gamma_i, cees holds (j+1)/divisor and scores the score of the estimator
\* built and fitted for that point.
C1_GridEnumerationOrder ==
  GridDone =>
    LET a == GridA(variant)
        b == GridB(variant)
    IN /\ Len(scores) = a * b /\ Len(gees) = a * b /\ Len(cees) = a * b
       /\ \A i \in 0..(a - 1), j \in 0..(b - 1) :
            LET p == i * b + j + 1
            IN /\ gees[p] = GammaFirst + i
               /\ cees[p] = Rat(j + 1, CDivisor(variant))
               /\ scores[p] =
                    Score(svc,
                          Fit(SVC(GammaFirst + i, Rat(j + 1, CDivisor(variant)),
                                  GridSeed(variant)),
                              feat_train_all, class_train_all),
                          ScoreFeatures(variant), ScoreClasses(variant),
                          Targets(n))
\* a completed grid of variant 1 (2 x 300) whose entry 117 is (1, 1.18) and
\* whose entry 300 starts the second gamma
C1_Witness ==
  /\ GridDone /\ variant = 1 /\ Len(scores) = 600
  /\ gees[118] = 1 /\ cees[118] = Rat(118, 100) /\ gees[301] = 2

\* C2: the position printed by scores.index(max(scores)) is the smallest
\* position holding the maximum score: no score is larger than the one
\* there, and every score before it is strictly smaller.
C2_FirstMaximumPosition ==
  (GridDone /\ "lookup" \in cells_done) =>
    LET p == printed.idx + 1
    IN /\ p \in 1..Len(scores)
       /\ printed.max = scores[p]
       /\ \A q \in 1..Len(scores) : ~RatLess(scores[p], scores[q])
       /\ \A q \in 1..(p - 1) : RatLess(scores[q], scores[p])
\* the maximum is repeated at a later position and is not the first score
C2_Witness ==
  /\ GridDone /\ "lookup" \in cells_done
  /\ printed.idx > 0
  /\ \E q \in (printed.idx + 2)..Len(scores) :
       RatEq(scores[q], scores[printed.idx + 1])

\* C3: the (gamma, C) pair the retrained "best" estimator is built with is
\* the point stored at the position of the first maximum score.
C3_RetrainedAtBestScore ==
  (GridDone /\ "retrain" \in cells_done) =>
    LET p == PyIndex(scores, PyMax(scores)) + 1
    IN /\ best_all_classifier.gamma = gees[p]
       /\ best_all_classifier.C = cees[p]

SplitDone == "split" \in cells_done
TrainRows == Range(feat_train_all)
ValidRows == Range(feat_valid_all)
TestRows == Range(feat_test_all)

\* C4: the partitioning step puts every record in exactly one of the
\* training, validation and test subsets: the subsets are pairwise disjoint,
\* hold no record twice, their sizes sum to N, together they are the whole
\* dataset, and each record keeps its own label.
C4_PartitionCoverage ==
  SplitDone =>
    /\ TrainRows \cap ValidRows = {}
    /\ TrainRows \cap TestRows = {}
    /\ ValidRows \cap TestRows = {}
    /\ Cardinality(TrainRows) = Len(feat_train_all)
    /\ Cardinality(ValidRows) = Len(feat_valid_all)
    /\ Cardinality(TestRows) = Len(feat_test_all)
    /\ Len(feat_train_all) + Len(feat_valid_all) + Len(feat_test_all) = n
    /\ TrainRows \cup ValidRows \cup TestRows = 1..n
    /\ class_train_all = [i \in 1..Len(feat_train_all) |->
                            Targets(n)[feat_train_all[i]]]
    /\ class_valid_all = [i \in 1..Len(feat_valid_all) |->
                            Targets(n)[feat_valid_all[i]]]
    /\ class_test_all = [i \in 1..Len(feat_test_all) |->
                           Targets(n)[feat_test_all[i]]]
\* iris split three ways by variant 1
C4_Witness ==
  /\ SplitDone /\ variant = 1 /\ n = IrisN
  /\ Len(feat_train_all) > 0 /\ Len(feat_valid_all) > 0
  /\ Len(feat_test_all) > 0

\* Python's round(frac * m): to the nearest integer, a half to the even one.
RoundMul(frac, m) ==
  LET x == frac.num * m
      fl == x \div frac.den
      twice == 2 * (x - fl * frac.den)
  IN IF twice < frac.den THEN fl
     ELSE IF twice > frac.den THEN fl + 1
     ELSE IF fl % 2 = 0 THEN fl ELSE fl + 1

\* C5 as stated: for fractions (0.70, 0.15, 0.15) the validation and test
\* subsets hold round(N * 0.15) records each, and the training subset
\* round(N * 0.70) plus the rounding remainder, i.e. the rest.
C5_SizesAreRounded ==
  (SplitDone /\ variant = 1) =>
    LET remainder == n - RoundMul(train_frac, n) - RoundMul(valid_frac, n)
                       - RoundMul(test_frac, n)
    IN /\ Len(feat_test_all) = RoundMul(test_frac, n)
       /\ Len(feat_valid_all) = RoundMul(valid_frac, n)
       /\ Len(feat_train_all) = RoundMul(train_frac, n) + remainder

\* C5 as amended: the test subset holds ceil(0.15 * N) records, the
\* validation subset ceil((0.15 / 0.85) * (N - test)) records of the rest,
\* and the training subset the remaining records.
C5_SizesAreCeilings ==
  (SplitDone /\ variant = 1) =>
    LET t == (15 * n + 99) \div 100
        va == (15 * (n - t) + 84) \div 85
    IN /\ Len(feat_test_all) = t
       /\ Len(feat_valid_all) = va
       /\ Len(feat_train_all) = n - t - va
\* N = 7: two test records (round(1.05) = 1), one validation, four training
C5_Witness ==
  /\ SplitDone /\ variant = 1 /\ n = 7
  /\ Len(feat_test_all) = 2 /\ Len(feat_valid_all) = 1
  /\ Len(feat_train_all) = 4

\* C6: a second execution of the partitioning step on the same dataset with
\* the same seed gives the subsets of the execution before it, record for
\* record.
C6_PartitionDeterminism ==
  (SplitDone /\ prev_partition # NoPartition) => Partition = prev_partition
\* iris split a second time
C6_Witness ==
  /\ SplitDone /\ prev_partition # NoPartition /\ n = IrisN
  /\ prev_partition.test # <<>>

\* C7: every score appended by the grid search is the accuracy, on the
\* validation subset, of the estimator fitted on the training subset; no
\* row of the training or of the test subset is scored on.
C7_ScoresOnValidation ==
  (SplitDone /\ Len(scores) > 0) =>
    /\ classes.X = feat_train_all /\ classes.y = class_train_all
    /\ scores[Len(scores)] =
         Score(svc, classes, feat_valid_all, class_valid_all, Targets(n))
    /\ score_log \subseteq ValidRows
    /\ score_log \cap (TrainRows \cup TestRows) = {}

\* C8: the test subset is held out: no test row is given to fit() of any
\* estimator, nor to a score() whose result enters the choice of the best
\* point; the test rows are used for the final predictions only.
C8_TestHeldOut ==
  SplitDone =>
    /\ TestRows \cap fit_log = {}
    /\ TestRows \cap score_log = {}
    /\ TestRows \cap best_all_classifier.rows = {}

RetrainDone == GridDone /\ "retrain" \in cells_done

\* C9 as stated: the best estimator is fitted on the training subset
\* together with the validation subset before it predicts the test rows.
C9_RetrainedOnTrainAndValid ==
  RetrainDone =>
    best_all_classifier.rows = TrainRows \cup ValidRows

\* C9 as amended: the best estimator is built with the gamma and C stored at
\* the notebook's literal position and fitted on feat_train_all and
\* class_train_all only, so on no row of the validation subset, and then
\* predicts the test rows.
C9_RetrainedOnTrainOnly ==
  RetrainDone =>
    /\ best_all_classifier.gamma = gees[BestPosition(variant) + 1]
    /\ best_all_classifier.C = cees[BestPosition(variant) + 1]
    /\ best_all_classifier.X = feat_train_all
    /\ best_all_classifier.y = class_train_all
    /\ best_all_classifier.rows \cap ValidRows = {}
    /\ best_all_predictions =
         PredictAll(svc, best_all_classifier, feat_test_all, Targets(n))
\* variant 1 retrained while a validation subset exists
C9_Witness ==
  /\ RetrainDone /\ variant = 1
  /\ ValidRows # {}
  /\ Len(best_all_predictions) = Len(feat_test_all)

RECURSIVE SumOver(_, _)
SumOver(f, S) ==
  IF S = {} THEN 0
  ELSE LET x == CHOOSE x \in S : TRUE
       IN f[x] + SumOver(f, S \ {x})

ReportDone == "report" \in cells_done

\* C10: the cells of the cross-tabulation sum to the number M of records
\* given to the reporting step, and every record is counted in exactly one
\* cell, the one of its (prediction, class name) pair.
C10_TableConservation ==
  ReportDone =>
    /\ SumOver(crosstabtable.cell, DOMAIN crosstabtable.cell)
         = Len(class_test_all)
    /\ \A k \in 1..Len(class_test_all) :
         /\ Cardinality({rc \in DOMAIN crosstabtable.cell :
                           rc = <<best_all_predictions[k],
                                  classifications[k]>>}) = 1
         /\ crosstabtable.cell[<<best_all_predictions[k],
                                 classifications[k]>>] >= 1
\* three records, two of them in the same cell, one misread
C10_Witness ==
  /\ ReportDone /\ Len(class_test_all) = 3
  /\ \E rc \in DOMAIN crosstabtable.cell : crosstabtable.cell[rc] = 2
  /\ \E k \in 1..3 : best_all_predictions[k] # class_test_all[k]
C12_LabelsAreClassNames ==
  ReportDone =>
    LET present == SortedStrs({ClassName(class_test_all[k]) :
                                 k \in 1..Len(class_test_all)})
    IN /\ crosstabtable.col_labels = present
       /\ crosstabtable.row_labels = present
\* C13: when fit() raises at a grid point the grid search stops there: the
\* step that meets the failing point ends the loop with the exception as the
\* cell's error, appends nothing for the point and does not complete the
\* grid; and the lists never get an entry for the failing point or for any
\* later one.
C13_FitFailureAbortsGrid ==
  /\ [](\A p \in fit_fails :
         Len(scores) <= p /\ Len(gees) <= p /\ Len(cees) <= p)
  /\ [][(running = "grid" /\ FitRaises(GridPosition(g_it, c_it))) =>
         /\ running' = "none"
         /\ error' # "none"
         /\ scores' = scores /\ gees' = gees /\ cees' = cees
         /\ score_log' = score_log
         /\ "grid" \notin cells_done']_vars
\* the loop of variant 1 ended by fit() at position 200 (gamma 1, C 2.01):
\* 200 entries, the estimator of the point built but not fitted
C13_Witness ==
  /\ variant = 1 /\ fit_fails = {200}
  /\ running = "none" /\ error = "FitError"
  /\ Len(scores) = 200
  /\ g = 1 /\ c = Rat(201, 100)
  /\ classes.C = Rat(201, 100) /\ classes.X = <<>>

\* C14: the lists of a grid search that did not run to its end are never
\* consumed: while the grid is not complete, no step prints a best position
\* or score, and none builds the best estimator or its predictions.
C14_NoBestFromPartialGrid ==
  [][~GridDone =>
       /\ printed' = printed
       /\ best_all_classifier' = best_all_classifier
       /\ best_all_predictions' = best_all_predictions]_vars
\* the reporting step has run (its first statement assigns classifications)
ReportRan == classifications # <<>>

\* C15: when a true label has no name (it is not 0, 1 or 2) the reporting
\* step fails with an error and produces no table, so that no record is
\* counted under another or an empty name.
C15_UnknownLabelRejected ==
  (ReportRan /\ \E k \in 1..Len(class_test_all) :
                  class_test_all[k] \notin Labels) =>
    /\ error # "none"
    /\ crosstabtable = NoTable

\* C16: when the predictions and the true labels differ in length the
\* reporting step fails with an error (the ValueError of the data frame)
\* and produces no table.
C16_LengthMismatchRejected ==
  (ReportRan /\ Len(best_all_predictions) # Len(class_test_all)) =>
    /\ error = "ValueError"
    /\ crosstabtable = NoTable
    /\ ~ReportDone
\* four predictions for five true labels: the step has run and failed
C16_Witness ==
  /\ ReportRan
  /\ Len(best_all_predictions) = 4 /\ Len(class_test_all) = 5
  /\ Len(classifications) = 5
  /\ error = "ValueError"
RatAdd(x, y) == Rat(x.num * y.den + y.num * x.den, x.den * y.den)
FractionInRange(x) == 0 <= x.num /\ x.num <= x.den
InvalidFractions ==
  \/ ~RatEq(RatAdd(train_frac, RatAdd(valid_frac, test_frac)), Rat(1, 1))
  \/ ~FractionInRange(train_frac)
  \/ ~FractionInRange(valid_frac)
  \/ ~FractionInRange(test_frac)

\* C17: the partitioning step rejects invalid input before it produces any
\* subset: with fractions that do not sum to 1 or of which one lies outside
\* [0,1], and with a dataset of no records, every execution ends in an error
\* and no subset is ever assigned.
C17_InvalidInputRejected ==
  /\ []((InvalidFractions \/ n = 0) =>
         (~SplitDone /\ Partition = NoPartition))
  /\ [][(InvalidFractions \/ n = 0) => error' # "none"]_vars
SinglePointGrid == g_last = GammaFirst /\ c_last = CFirst

\* C18: a grid search over a single point gives exactly one observation, and
\* the selection and retraining steps succeed on it and use that point: the
\* position printed is 0, the pair printed and the pair the best estimator
\* is built with are the ones of the point.
C18_SinglePointSelected ==
  (SinglePointGrid /\ GridDone) =>
    /\ Len(scores) = 1 /\ Len(gees) = 1 /\ Len(cees) = 1
    /\ error = "none"
    /\ "lookup" \in cells_done =>
         (printed.idx = 0 /\ printed.gamma = gees[1] /\ printed.C = cees[1])
    /\ "retrain" \in cells_done =>
         (best_all_classifier.gamma = gees[1] /\ best_all_classifier.C = cees[1])
\* the arrays as the split calls returned them (the seeds fix the shuffle)
SplitOutput ==
  LET s1 == SplitTest(rng)
      s2 == SplitValid(s1, rng)
  IN IF variant = 1
     THEN [train |-> s2.X_train, valid |-> s2.X_test, test |-> s1.X_test,
           class_train |-> s2.y_train, class_valid |-> s2.y_test,
           class_test |-> s1.y_test]
     ELSE [train |-> s1.X_train, valid |-> <<>>, test |-> s1.X_test,
           class_train |-> s1.y_train, class_valid |-> <<>>,
           class_test |-> s1.y_test]

\* C19: the grid search leaves the subsets as the partitioning step produced
\* them, features and labels, after any number of iterations; an iteration
\* changes none of the arrays and nothing of the later cells, and adds one
\* entry to each of scores, gees and cees.
C19_GridLeavesSubsets ==
  /\ [](SplitDone => Partition = SplitOutput)
  /\ [][running = "grid" =>
         /\ splitVars' = splitVars
         /\ laterVars' = laterVars
         /\ Len(scores') = Len(scores) + 1
         /\ Len(gees') = Len(gees) + 1
         /\ Len(cees') = Len(cees) + 1]_vars
\* variant 1 after 300 iterations, the loop still running
C19_Witness ==
  /\ variant = 1 /\ running = "grid" /\ Len(scores) = 300
  /\ Len(feat_train_all) > 1 /\ Len(feat_valid_all) > 1
  /\ feat_train_all = SplitOutput.train

\* C20 as stated: exactly one of the two variants builds the retrained
\* estimator without the random_state of its grid search; the other builds
\* it with the configuration of the grid-search estimator of the point.
C20_ExactlyOneVariantWithoutSeed ==
  RetrainDone =>
    LET other == CHOOSE w \in Variants : w # variant
        dropped_here == /\ best_all_classifier.random_state = {}
                        /\ classes.random_state # {}
        dropped_there == RetrainSeed(other) = {} /\ GridSeed(other) # {}
    IN /\ dropped_here # dropped_there
       /\ ~dropped_here =>
            best_all_classifier.random_state = classes.random_state

\* C20 as amended: in both variants the retrained estimator is built
\* without random_state, while the grid-search estimators were built with
\* one (61 resp. 21); its gamma and C are those stored at the literal
\* position.
C20_RetrainedWithoutSeed ==
  RetrainDone =>
    /\ best_all_classifier.random_state = {}
    /\ classes.random_state = GridSeed(variant)
    /\ classes.random_state # {}
    /\ best_all_classifier.gamma = gees[BestPosition(variant) + 1]
    /\ best_all_classifier.C = cees[BestPosition(variant) + 1]
\* variant 2 retrained: grid estimators seeded with 21, the best one not
C20_Witness ==
  /\ RetrainDone /\ variant = 2
  /\ classes.random_state = {21}
  /\ best_all_classifier.random_state = {}
  /\ best_all_classifier.X # <<>>
\* the run is over: a cell raised, or the last cell has run
RunEnded == running = "none" /\ (error # "none" \/ "report" \in cells_done)

\* what the run has done so far: cells begun or finished, points appended,
\* and the error that ended it
RunProgress ==
  Cardinality(cells_done \ {"grid"}) + Len(scores)
    + (IF error # "none" THEN 1 ELSE 0)
\* a cell or a loop iteration is next
RunCanStep ==
  \/ running = "grid"
  \/ /\ running = "none" /\ error = "none"
     /\ \/ cells_done = {}
        \/ "grid" \in cells_done /\ "report" \notin cells_done

\* C21: a run of the notebook terminates.  Every step adds to what the run
\* has done, which never exceeds the a*b loop iterations and the four other
\* steps, so a run has at most a*b + 4 steps; the loop makes at most a*b
\* calls of fit() (each followed by an append, except one that raises); and
\* a run that has not ended, by its last cell or by an error, has a step to
\* take: nothing loops and nothing waits.
C21_RunTerminates ==
  /\ [](Len(scores) + (IF error = "FitError" THEN 1 ELSE 0)
          <= GridA(variant) * GridB(variant))
  /\ [](RunProgress <= GridA(variant) * GridB(variant) + 4)
  /\ [][RunProgress' > RunProgress]_vars
  /\ [](RunEnded \/ RunCanStep)
\* the run of variant 1 that went through all 600 points to the report
C21_Witness ==
  /\ RunEnded /\ variant = 1 /\ fit_fails = {}
  /\ Len(scores) = 600 /\ "report" \in cells_done
\* C22: the retraining pair is read at the literal position 117 resp. 34 of
\* gees and of cees: whenever a best estimator exists it was built with
\* (gamma 1, C 1.18) resp. (gamma 2, C 0.5), and cell 5 printed that pair,
\* whatever the scores are; and a read succeeds only on lists of at least
\* 118 resp. 35 entries: on shorter lists nothing is printed as the pair,
\* no estimator is built, and an IndexError is raised only there.
C22_LiteralPosition ==
  LET pair == IF variant = 1 THEN [gamma |-> 1, C |-> Rat(118, 100)]
              ELSE [gamma |-> 2, C |-> Rat(5, 10)]
      least == IF variant = 1 THEN 118 ELSE 35
  IN /\ best_all_classifier # NoClassifier =>
          /\ best_all_classifier.gamma = pair.gamma
          /\ best_all_classifier.C = pair.C
     /\ "lookup" \in cells_done =>
          (printed.gamma = pair.gamma /\ printed.C = pair.C)
     /\ error = "IndexError" => Len(gees) < least
     /\ (GridDone /\ Len(gees) < least) =>
          /\ best_all_classifier = NoClassifier
          /\ "lookup" \notin cells_done /\ "retrain" \notin cells_done
\* variant 1 retrained with (1, 1.18) although the best score is elsewhere
C22_Witness ==
  /\ RetrainDone /\ variant = 1
  /\ PyIndex(scores, PyMax(scores)) # 117
  /\ RatLess(scores[118], PyMax(scores))
  /\ best_all_classifier.gamma = 1 /\ best_all_classifier.C = Rat(118, 100)
\* C23: between iterations of the loop scores, gees and cees have the same
\* length k, which is the number of grid points done, and position by
\* position they hold the score, the gamma and the C of the same point: the
\* p-th entries are those of the p-th point in the order of the loops, an
\* iteration appends one entry to each list (the score of the estimator
\* just fitted with the gamma and C appended), and no entry is ever changed.
C23_ListsAligned ==
  /\ [](Len(scores) = Len(gees) /\ Len(gees) = Len(cees))
  /\ [](running = "grid" => Len(scores) = GridPosition(g_it, c_it))
  /\ [](\A p \in 1..Len(gees) :
          /\ gees[p] = GammaFirst + (p - 1) \div GridB(variant)
          /\ cees[p].num = CFirst + ((p - 1) % GridB(variant))
          /\ cees[p].den = IF variant = 1 THEN 100 ELSE 10)
  /\ [][ IF Len(scores') > Len(scores)
         THEN /\ scores' = Append(scores,
                     Score(svc, classes', ScoreFeatures(variant),
                           ScoreClasses(variant), Targets(n)))
              /\ gees' = Append(gees, classes'.gamma)
              /\ cees' = Append(cees, classes'.C)
              /\ classes'.X = feat_train_all
              /\ classes'.y = class_train_all
         ELSE /\ scores' \in {scores, <<>>}
              /\ gees' \in {gees, <<>>}
              /\ cees' \in {cees, <<>>} ]_vars
\* variant 1 between two iterations, 350 points done, the 350th being
\* (gamma 2, C 0.5)
C23_Witness ==
  /\ running = "grid" /\ variant = 1
  /\ Len(scores) = 350 /\ Len(gees) = 350 /\ Len(cees) = 350
  /\ gees[350] = 2 /\ cees[350] = Rat(50, 100)
  /\ classes.gamma = 2 /\ classes.C = Rat(50, 100)
\* C24: when cell 4 has been executed again (any number of times) and its
\* loop has ended, the observations are exactly the a*b of a single
\* execution: the split is the one of the execution before, the three lists
\* have length a*b, and their p-th entries are the gamma, the C and the
\* score of the p-th grid point; nothing of an earlier execution is left in
\* them, and the same holds after the first execution.
C24_RerunSameObservations ==
  GridDone =>
    LET ab == GridA(variant) * GridB(variant)
    IN /\ prev_partition # NoPartition => prev_partition = Partition
       /\ Len(scores) = ab /\ Len(gees) = ab /\ Len(cees) = ab
       /\ \A p \in 1..ab :
            LET gp == GammaFirst + (p - 1) \div GridB(variant)
                cp == Rat(CFirst + ((p - 1) % GridB(variant)),
                          CDivisor(variant))
            IN /\ gees[p] = gp
               /\ cees[p] = cp
               /\ scores[p] =
                    Score(svc, Fit(SVC(gp, cp, GridSeed(variant)),
                                   feat_train_all, class_train_all),
                          ScoreFeatures(variant), ScoreClasses(variant),
                          Targets(n))
\* variant 1 after cell 4 was executed again following a whole run: 600
\* observations, the one at position 117 being (gamma 1, C 1.18)
C24_Witness ==
  /\ GridDone /\ variant = 1 /\ prev_partition # NoPartition
  /\ cells_done = {"split", "grid", "lookup", "retrain", "report"}
  /\ Len(scores) = 600
  /\ gees[118] = 1 /\ cees[118] = Rat(118, 100)
\* C25: in variant 1 train_frac is never read: whatever its value, the test
\* subset is ceil(test_frac * N) records, the validation subset is
\* ceil(valid_frac / (1 - test_frac) * rest) of the rest, and the training
\* subset is what remains; for N = 150 and the notebook's 0.15 / 0.15 that
\* is 23 test, 23 validation and 104 training records.
C25_TrainFracUnused ==
  (SplitDone /\ variant = 1) =>
    LET t == CeilMul(test_frac, n)
        rest == n - t
        va == CeilMul(RatDiv(valid_frac, RatSub(Rat(1, 1), test_frac)), rest)
    IN /\ Len(feat_test_all) = t /\ Len(class_test_all) = t
       /\ Len(feat_nottest_all) = rest
       /\ Len(feat_valid_all) = va /\ Len(class_valid_all) = va
       /\ Len(feat_train_all) = rest - va
       /\ Len(class_train_all) = rest - va
       /\ (n = 150 /\ test_frac = Rat(15, 100) /\ valid_frac = Rat(15, 100))
            => (t = 23 /\ va = 23 /\ rest - va = 104)
\* 150 records split 104 / 23 / 23 with train_frac = 0.5
C25_Witness ==
  /\ SplitDone /\ variant = 1 /\ n = 150
  /\ train_frac = Rat(50, 100)
  /\ Len(feat_train_all) = 104
  /\ Len(feat_valid_all) = 23
  /\ Len(feat_test_all) = 23
\* C26: the items of the array of class names are as wide as the test
\* subset is long (M records): the item of a record holds the first M
\* characters of the name of its class, which is the name itself only when
\* M is at least the length of the name (10 for versicolor), and the
\* columns of the table are labelled with these stored strings, so that for
\* a smaller M records are counted under a shortened label.
C26_NamesCutToSubsetSize ==
  ReportDone =>
    LET M == Len(class_test_all)
    IN /\ Len(classifications) = M
       /\ \A k \in 1..M :
            LET name == ClassName(class_test_all[k])
            IN /\ Len(classifications[k]) <= M
               /\ Len(classifications[k]) <= Len(name)
               /\ Len(classifications[k]) \in {M, Len(name)}
               /\ \A i \in 1..Len(classifications[k]) :
                    classifications[k][i] = name[i]
               /\ (classifications[k] = name) <=> (M >= Len(name))
       /\ crosstabtable.cols = Range(classifications)
       /\ (M >= Len(versicolor)) =>
            (\A k \in 1..M :
               classifications[k] = ClassName(class_test_all[k]))
\* two test records, a versicolor and a virginica: counted under ve and vi
C26_Witness ==
  /\ ReportDone
  /\ class_test_all = <<1, 2>>
  /\ classifications = << <<"v", "e">>, <<"v", "i">> >>
  /\ crosstabtable.col_labels = << <<"v", "e">>, <<"v", "i">> >>
\* C27: every estimator the loop builds and fits has gamma >= 1 and C > 0:
\* gamma is one of 1..2 resp. 1..30 and C is c/100 for a c of 1..300 resp.
\* c/10 for a c of 1..30; and the assignment c = c / 100.0 in the body does
\* not change the iteration: after the body ran with the value c of the
\* range, the next iteration gets c + 1 of the same gamma, or the first c of
\* the next gamma after the last c, whatever the body left in the variable.
C27_GridPointsValid ==
  /\ [](classes # NoClassifier =>
         /\ classes.gamma >= 1
         /\ classes.gamma \in GammaFirst..GammaLast(variant)
         /\ classes.C.num \in CFirst..CLast(variant)
         /\ classes.C.den = CDivisor(variant)
         /\ RatLess(Rat(0, 1), classes.C))
  /\ [](\A p \in 1..Len(cees) :
         gees[p] >= 1 /\ RatLess(Rat(0, 1), cees[p]))
  /\ [][ running = "grid" =>
          /\ classes'.gamma = g_it
          /\ classes'.C = Rat(c_it, CDivisor(variant))
          /\ g' = g_it
          /\ c' = Rat(c_it, CDivisor(variant))
          /\ IF c_it < CLast(variant)
             THEN running' = "grid" /\ g_it' = g_it /\ c_it' = c_it + 1
             ELSE IF g_it < GammaLast(variant)
             THEN running' = "grid" /\ g_it' = g_it + 1 /\ c_it' = CFirst
             ELSE running' = "none" ]_vars
\* variant 1 after the body ran for the last c of gamma 1 and left 3.0 in c:
\* the loop goes on with c = 1 of gamma 2
C27_Witness ==
  /\ running = "grid" /\ variant = 1
  /\ g = 1 /\ c = Rat(300, 100)
  /\ g_it = 2 /\ c_it = 1
  /\ classes.gamma = 1 /\ classes.C = Rat(300, 100)
\* C28: in the notebook as written the predictions and the class names given
\* to the cross-tabulation always have the same length, the size of the test
\* subset: once cell 6 has run there is one prediction per test record, once
\* cell 7 has run there is one class name per test record and per
\* prediction, and cell 7 never ends with the ValueError of a length
\* mismatch.
C28_SameLengthSequences ==
  /\ "retrain" \in cells_done =>
       /\ Len(best_all_predictions) = Len(feat_test_all)
       /\ Len(best_all_predictions) = Len(class_test_all)
       /\ Len(best_all_predictions) = CeilMul(TestSize(variant), n)
  /\ ReportRan =>
       /\ Len(classifications) = Len(best_all_predictions)
       /\ Len(classifications) = Len(class_test_all)
       /\ ReportDone
  /\ error # "ValueError"
\* variant 1 after cell 7: 23 predictions and 23 class names
C28_Witness ==
  /\ ReportDone /\ variant = 1 /\ error = "none"
  /\ Len(feat_test_all) = 23
  /\ Len(best_all_predictions) = 23
  /\ Len(classifications) = 23
====
